---- MODULE Spec2Model ----
(***************************************************************************)
(* Model of the in-memory shopping workflow: the Product registry          *)
(* (src/products.py) and the Order cart / checkout state machine           *)
(* (src/order.py).                                                         *)
(*                                                                         *)
(* Python objects live in two heaps, `prod` and `order`; an object is its  *)
(* index in the heap, so a caller may hold a handle to an object that is   *)
(* no longer an entry of a registry.  The class attributes                 *)
(* Product.products and Order.orders are the sequences `products` and      *)
(* `orders` of such handles.  All numeric arguments are Python ints.       *)
(***************************************************************************)
EXTENDS Integers, Sequences, FiniteSets, TLC

VARIABLES
    prod,         \* heap of Product objects: Seq of records
    products,     \* Product.products: Seq of handles into prod
    id_counter,   \* Product._id_counter (Unset before the first generate_id)
    order,        \* heap of Order objects: Seq of records
    orders,       \* Order.orders: Seq of handles into order
    order_id,     \* Order._order_id (Unset before the first order_id())
    today,        \* the day date.today() reports
    ret           \* the last call: method, exception raised, value returned

vars == <<prod, products, id_counter, order, orders, order_id, today, ret>>

(***************************************************************************)
(* Bounds of the model.                                                    *)
(***************************************************************************)
MaxProducts == 3      \* Product objects ever constructed
MaxOrders == 2        \* Order objects ever constructed
MaxQty == 2           \* largest quantity / integer argument
MaxNeg == 1           \* integer arguments range down to -MaxNeg
MaxDay == 2           \* days the clock runs through
MaxBurn == 1          \* ids consumed by constructions that then fail

(***************************************************************************)
(* Program constants.                                                      *)
(***************************************************************************)
IdBase == 100000      \* first Product id
OrderIdBase == 10000  \* first Order id

Unset == -1           \* a class attribute that has not been created yet
None == 0             \* Python None as a handle or a date
NoExc == "none"       \* the call returned normally

Ints == (0 - MaxNeg)..MaxQty
Names == {"", "mouse "}
Categories == {"", "electronics"}
Prices == {0, 30, 150}

\* str.title() and str.strip() on the strings the model constructs.
title(t) ==
    CASE t = "mouse " -> "Mouse "
      [] t = "mouse" -> "Mouse"
      [] t = "desk chair" -> "Desk Chair"
      [] t = "electronics" -> "Electronics"
      [] OTHER -> t

strip(t) ==
    CASE t = "mouse " -> "mouse"
      [] t = "Mouse " -> "Mouse"
      [] OTHER -> t

(***************************************************************************)
(* The program state as one record, and the outcome of a call on it.       *)
(***************************************************************************)
State ==
    [prod |-> prod, products |-> products, id_counter |-> id_counter,
     order |-> order, orders |-> orders, order_id |-> order_id]

\* a call that returns val / a call that raises exc(msg)
Return(s, val) == [s |-> s, exc |-> NoExc, msg |-> "", val |-> val]

Raise(s, exc, msg) == [s |-> s, exc |-> exc, msg |-> msg, val |-> None]

Pop(seq, i) == SubSeq(seq, 1, i - 1) \o SubSeq(seq, i + 1, Len(seq))

\* identity membership: the object itself is an entry of the list
Registered(reg, p) == \E i \in 1..Len(reg) : reg[i] = p

(***************************************************************************)
(* src/products.py                                                         *)
(***************************************************************************)
\* __eq__ as its docstring has it: the product ids alone
Product_eq_by_id(a, b) == a.product_id = b.product_id

Product_eq(a, b) == a.product_id = b.product_id \/ a.parent_id = b.parent_id

Product_ne(a, b) == a.parent_id # b.parent_id

\* `p in reg` for a list of Products: identity first, then __eq__
Product_in(s, reg, p) ==
    \E i \in 1..Len(reg) : reg[i] = p \/ Product_eq(s.prod[reg[i]], s.prod[p])

\* reg.index(p): the first entry that is p or equals p
Product_index(s, reg, p) ==
    CHOOSE i \in 1..Len(reg) :
        /\ reg[i] = p \/ Product_eq(s.prod[reg[i]], s.prod[p])
        /\ \A j \in 1..(i - 1) :
               ~(reg[j] = p \/ Product_eq(s.prod[reg[j]], s.prod[p]))

\* the in_cart getter reads _in_cart; the setter writes _incart
in_cart(pr) ==
    IF "_in_cart" \in DOMAIN pr
    THEN [exc |-> NoExc, val |-> pr._in_cart]
    ELSE [exc |-> "AttributeError", val |-> FALSE]

\* generate_id numbering from the size of the registry
generate_id_by_size(s) ==
    IdBase + Len(s.products)

generate_id(s) ==
    IF s.id_counter = Unset THEN IdBase ELSE s.id_counter + 1

\* Product.__init__: the object is reachable only when construction succeeds
Product_init(s, name, category, price, quantity) ==
    IF title(name) = "" THEN Raise(s, "ValueError", "Missing product name")
    ELSE IF quantity = 0
         THEN Raise(s, "ValueError", "Missing or invalid product quantity")
    ELSE IF price = 0
         THEN Raise(s, "ValueError", "Missing or invalid product price")
    ELSE LET id == generate_id(s)
             s1 == [s EXCEPT !.id_counter = id]
             obj == [name |-> strip(title(title(name))),
                     quantity |-> quantity,
                     price |-> price,
                     product_id |-> id,
                     parent_id |-> id,
                     category |-> strip(title(category)),
                     _incart |-> FALSE]
         IN IF category = ""
            THEN Raise(s1, "ValueError", "Missing product category")
            ELSE Return([s1 EXCEPT !.prod = Append(@, obj),
                                   !.products = Append(@, Len(s.prod) + 1)],
                        Len(s.prod) + 1)

delete_product(s, p) ==
    IF ~Product_in(s, s.products, p)
    THEN Raise(s, "ValueError", "Product does not exist")
    ELSE Return([s EXCEPT !.products = Pop(@, Product_index(s, s.products, p))],
                None)

\* the quantity setter
set_quantity(s, p, quantity) ==
    IF quantity = 0
    THEN Raise(s, "ValueError", "Missing or invalid product quantity")
    ELSE Return([s EXCEPT !.prod[p].quantity = quantity], None)

\* Product.__add__ with an int operand
Product_add_int(s, self, other) ==
    Return([s EXCEPT !.prod[self].quantity = @ + other], self)

\* Product.__add__ with a Product operand
Product_add(s, self, other) ==
    IF Product_ne(s.prod[self], s.prod[other])
    THEN Raise(s, "TypeError",
               "Cannot add Products of different names, categories, or price")
    ELSE LET r == set_quantity(s, self,
                               s.prod[self].quantity + s.prod[other].quantity)
         IN IF r.exc # NoExc THEN r ELSE Return(r.s, self)

\* the common tail of Product.__sub__ once the amount is known
Product_sub_amount(s, self, amount) ==
    IF amount > s.prod[self].quantity
    THEN Raise(s, "ValueError",
               "Cannot subtract more than the available quantity")
    ELSE IF amount = s.prod[self].quantity THEN delete_product(s, self)
    ELSE LET r == set_quantity(s, self, s.prod[self].quantity - amount)
         IN IF r.exc # NoExc THEN r ELSE Return(r.s, self)

\* Product.__sub__ with an int operand
Product_sub_int(s, self, other) == Product_sub_amount(s, self, other)

\* Product.__sub__ with a Product operand
Product_sub(s, self, other) ==
    IF Product_ne(s.prod[self], s.prod[other])
    THEN Raise(s, "TypeError", "Cannot add Products of different types")
    ELSE Product_sub_amount(s, self, s.prod[other].quantity)

\* the validate_product decorator: TRUE when the wrapped method may run
validate_product(s, self) == Product_in(s, s.products, self)

add_inventory(s, self, value) ==
    IF ~validate_product(s, self)
    THEN Raise(s, "ValueError",
               "Unable to update product inventory. Product does not exist")
    ELSE Product_add_int(s, self, value)

remove_inventory(s, self, value) ==
    IF ~validate_product(s, self)
    THEN Raise(s, "ValueError",
               "Unable to update product inventory. Product does not exist")
    ELSE IF value <= 0 \/ value > s.prod[self].quantity
         THEN Raise(s, "ValueError", "Invalid quantity")
    ELSE Product_sub_int(s, self, value)

\* Product.new that leaves the new unit's parent id as constructed
Product_new_orphan(s, self, qty, update_original) ==
    IF qty = 0 \/ qty > s.prod[self].quantity THEN Return(s, None)
    ELSE LET c == Product_init(s, s.prod[self].name, s.prod[self].category,
                               s.prod[self].price, qty)
         IN IF c.exc # NoExc THEN Return(c.s, None)
            ELSE LET r == IF update_original
                          THEN remove_inventory(c.s, self, qty)
                          ELSE Return(c.s, self)
                 IN IF r.exc # NoExc THEN Return(r.s, None)
                    ELSE Return(r.s, c.val)

\* Product.new: every ValueError is caught and None returned
Product_new(s, self, qty, update_original) ==
    IF qty = 0 \/ qty > s.prod[self].quantity THEN Return(s, None)
    ELSE LET c == Product_init(s, s.prod[self].name, s.prod[self].category,
                               s.prod[self].price, qty)
         IN IF c.exc # NoExc THEN Return(c.s, None)
            ELSE LET s1 == [c.s EXCEPT !.prod[c.val].parent_id =
                                           s.prod[self].product_id]
                     r == IF update_original
                          THEN remove_inventory(s1, self, qty)
                          ELSE Return(s1, self)
                 IN IF r.exc # NoExc THEN Return(r.s, None)
                    ELSE Return(r.s, c.val)

(***************************************************************************)
(* src/order.py                                                            *)
(***************************************************************************)
\* Order.order_id()
next_order_id(s) ==
    IF s.order_id = Unset THEN OrderIdBase ELSE s.order_id + 1

\* Order.__init__ called without initial products, as Customer does.  The
\* attributes _created_date and _total are written but never read by any
\* method other than their own accessors, and are not part of the state.
Order_init(s, day) ==
    LET obj == [products |-> <<>>,
                id |-> next_order_id(s),
                checkout_date |-> None,
                checkout_status |-> FALSE]
    IN Return([s EXCEPT !.order_id = next_order_id(s),
                        !.order = Append(@, obj),
                        !.orders = Append(@, Len(s.order) + 1)],
              Len(s.order) + 1)

\* order_validation without the checkout test
order_validation_unguarded(s, self) ==
    IF ~Registered(s.orders, self) THEN "Order does not exist" ELSE ""

\* the order_validation decorator: the message it raises, "" when it passes
order_validation(s, self) ==
    IF s.order[self].checkout_status
    THEN "Unable to edit order, you have already checked out!"
    ELSE IF ~Registered(s.orders, self) THEN "Order does not exist"
    ELSE ""

\* add_product without the stock test
Order_add_product_unchecked(s, self, product, qty) ==
    IF order_validation(s, self) # ""
    THEN Raise(s, "ValueError", order_validation(s, self))
    ELSE LET r == Product_new(s, product, qty, TRUE)
         IN IF r.val = None THEN Return(r.s, None)
            ELSE Return([r.s EXCEPT !.prod[r.val]._incart = TRUE,
                                    !.order[self].products = Append(@, r.val)],
                        self)

Order_add_product(s, self, product, qty) ==
    IF order_validation(s, self) # ""
    THEN Raise(s, "ValueError", order_validation(s, self))
    ELSE IF qty > s.prod[product].quantity
         THEN Raise(s, "ValueError", "Only N items available")
    ELSE LET r == Product_new(s, product, qty, TRUE)
         IN IF r.val = None THEN Return(r.s, None)
            ELSE Return([r.s EXCEPT !.prod[r.val]._incart = TRUE,
                                    !.order[self].products = Append(@, r.val)],
                        self)

Order_remove_product(s, self, product) ==
    IF order_validation(s, self) # ""
    THEN Raise(s, "ValueError", order_validation(s, self))
    ELSE IF ~Product_in(s, s.order[self].products, product)
         THEN Raise(s, "ValueError", "Product not in order cart")
    ELSE LET idx == Product_index(s, s.order[self].products, product)
         IN Return([s EXCEPT !.prod[product]._incart = FALSE,
                             !.order[self].products = Pop(@, idx)],
                   self)

\* positions of Product.products the sibling lookup stops at: the parent id
\* matches and reading in_cart raises or yields False
LookupStops(s, product) ==
    {i \in 1..Len(s.products) :
        /\ s.prod[s.products[i]].parent_id = s.prod[product].parent_id
        /\ \/ in_cart(s.prod[s.products[i]]).exc # NoExc
           \/ ~in_cart(s.prod[s.products[i]]).val}

Abs(n) == IF n < 0 THEN 0 - n ELSE n

\* update_product_quantity assigning the line's quantity before the lookup
Order_update_product_quantity_eager(s, self, product, new_qty) ==
    IF order_validation(s, self) # ""
    THEN Raise(s, "ValueError", order_validation(s, self))
    ELSE IF ~Product_in(s, s.order[self].products, product)
         THEN Raise(s, "ValueError", "Product not in order cart")
    ELSE IF new_qty <= 0 \/ new_qty = s.prod[product].quantity
         THEN Raise(s, "ValueError", "Enter a valid quantity")
    ELSE LET s1 == [s EXCEPT !.prod[product].quantity = new_qty]
         IN IF LookupStops(s, product) = {}
            THEN Raise(s1, "ValueError",
                       "Original product not found in global inventory")
            ELSE LET first == CHOOSE i \in LookupStops(s, product) :
                                  \A j \in LookupStops(s, product) : i <= j
                     global_prod == s.products[first]
                     adj == Abs(s.prod[product].quantity - new_qty)
                 IN IF in_cart(s.prod[global_prod]).exc # NoExc
                    THEN Raise(s1, in_cart(s.prod[global_prod]).exc,
                               "'Product' object has no attribute '_in_cart'")
                    ELSE IF new_qty > s.prod[global_prod].quantity
                         THEN Raise(s1, "ValueError", "Cannot set quantity")
                    ELSE LET r == IF new_qty > s.prod[product].quantity
                                  THEN remove_inventory(s1, global_prod, adj)
                                  ELSE add_inventory(s1, global_prod, adj)
                         IN IF r.exc # NoExc THEN r ELSE Return(r.s, self)

Order_update_product_quantity(s, self, product, new_qty) ==
    IF order_validation(s, self) # ""
    THEN Raise(s, "ValueError", order_validation(s, self))
    ELSE IF ~Product_in(s, s.order[self].products, product)
         THEN Raise(s, "ValueError", "Product not in order cart")
    ELSE IF new_qty <= 0 \/ new_qty = s.prod[product].quantity
         THEN Raise(s, "ValueError", "Enter a valid quantity")
    ELSE IF LookupStops(s, product) = {}
         THEN Raise(s, "ValueError",
                    "Original product not found in global inventory")
    ELSE LET first == CHOOSE i \in LookupStops(s, product) :
                          \A j \in LookupStops(s, product) : i <= j
             global_prod == s.products[first]
             adj == Abs(s.prod[product].quantity - new_qty)
             s1 == [s EXCEPT !.prod[product].quantity = new_qty]
         IN IF in_cart(s.prod[global_prod]).exc # NoExc
            THEN Raise(s, in_cart(s.prod[global_prod]).exc,
                       "'Product' object has no attribute '_in_cart'")
            ELSE IF new_qty > s.prod[global_prod].quantity
                 THEN Raise(s, "ValueError", "Cannot set quantity")
            ELSE LET r == IF new_qty > s.prod[product].quantity
                          THEN remove_inventory(s1, global_prod, adj)
                          ELSE add_inventory(s1, global_prod, adj)
                 IN IF r.exc # NoExc THEN r ELSE Return(r.s, self)

\* clear_products emptying a list that all orders share
Order_clear_products_shared(s, self) ==
    IF order_validation(s, self) # ""
    THEN Raise(s, "ValueError", order_validation(s, self))
    ELSE Return([s EXCEPT !.order = [x \in DOMAIN s.order |->
                                        [s.order[x] EXCEPT !.products = <<>>]]],
                self)

Order_clear_products(s, self) ==
    IF order_validation(s, self) # ""
    THEN Raise(s, "ValueError", order_validation(s, self))
    ELSE Return([s EXCEPT !.order[self].products = <<>>], self)

Order_delete(s, self) ==
    IF order_validation(s, self) # ""
    THEN Raise(s, "ValueError", order_validation(s, self))
    ELSE Return([s EXCEPT !.orders =
                     Pop(@, CHOOSE i \in 1..Len(s.orders) : s.orders[i] = self)],
                None)

RECURSIVE SumLines(_, _)
SumLines(s, lines) ==
    IF lines = <<>> THEN 0
    ELSE s.prod[Head(lines)].quantity * s.prod[Head(lines)].price
         + SumLines(s, Tail(lines))

\* total_price with a loop that stops one line short
Order_total_price_short(s, self) ==
    IF ~Registered(s.orders, self)
    THEN Raise(s, "ValueError", "Order does not exist")
    ELSE Return(s, SumLines(s, SubSeq(s.order[self].products, 1,
                                      Len(s.order[self].products) - 1)))

\* the total_price property; its value is the amount the string formats
Order_total_price(s, self) ==
    IF ~Registered(s.orders, self)
    THEN Raise(s, "ValueError", "Order does not exist")
    ELSE Return(s, SumLines(s, s.order[self].products))

\* checkout without the empty-cart test
Order_checkout_empty(s, self, day) ==
    IF s.order[self].checkout_status
    THEN Raise(s, "ValueError", "Already checked out")
    ELSE LET s1 == [s EXCEPT !.order[self].checkout_status = TRUE,
                             !.order[self].checkout_date = day]
             r == Order_total_price(s1, self)
         IN IF r.exc # NoExc THEN r ELSE Return(r.s, None)

\* checkout without the already-checked-out test
Order_checkout_restamp(s, self, day) ==
    IF Len(s.order[self].products) = 0 THEN Return(s, None)
    ELSE LET s1 == [s EXCEPT !.order[self].checkout_status = TRUE,
                             !.order[self].checkout_date = day]
             r == Order_total_price(s1, self)
         IN IF r.exc # NoExc THEN r ELSE Return(r.s, None)

Order_checkout(s, self, day) ==
    IF s.order[self].checkout_status
    THEN Raise(s, "ValueError", "Already checked out")
    ELSE IF Len(s.order[self].products) = 0 THEN Return(s, None)
    ELSE LET s1 == [s EXCEPT !.order[self].checkout_status = TRUE,
                             !.order[self].checkout_date = day]
             r == Order_total_price(s1, self)
         IN IF r.exc # NoExc THEN r ELSE Return(r.s, None)

(***************************************************************************)
(* The state machine: one action per call a client can make.               *)
(***************************************************************************)
Bounded(s) ==
    /\ Len(s.prod) <= MaxProducts
    /\ Len(s.order) <= MaxOrders
    /\ s.id_counter < IdBase + MaxProducts + MaxBurn
    /\ \A p \in 1..Len(s.prod) :
           s.prod[p].quantity \in (0 - MaxNeg)..MaxQty

Apply(r, op) ==
    /\ Bounded(r.s)
    /\ prod' = r.s.prod
    /\ products' = r.s.products
    /\ id_counter' = r.s.id_counter
    /\ order' = r.s.order
    /\ orders' = r.s.orders
    /\ order_id' = r.s.order_id
    /\ ret' = [op |-> op, exc |-> r.exc, val |-> r.val]
    /\ UNCHANGED today

Init ==
    /\ prod = <<>>
    /\ products = <<>>
    /\ id_counter = Unset
    /\ order = <<>>
    /\ orders = <<>>
    /\ order_id = Unset
    /\ today = 1
    /\ ret = [op |-> "start", exc |-> NoExc, val |-> None]

Handles == 1..Len(prod)
OrderHandles == 1..Len(order)

Do_Product(name, category, price, quantity) ==
    Apply(Product_init(State, name, category, price, quantity),
          "Product")

\* the catalog seeding of main.py: a constructor call with valid arguments
Seed(quantity) == Do_Product("mouse ", "electronics", 30, quantity)

Do_new(self, qty, update_original) ==
    Apply(Product_new(State, self, qty, update_original),
          IF update_original THEN "new" ELSE "new(update_original=False)")

Do_add_inventory(self, value) ==
    Apply(add_inventory(State, self, value),
          "add_inventory")

Do_remove_inventory(self, value) ==
    Apply(remove_inventory(State, self, value),
          "remove_inventory")

Do_delete_product(p) ==
    Apply(delete_product(State, p), "delete_product")

Do_add_int(self, other) ==
    Apply(Product_add_int(State, self, other), "+int")

Do_add(self, other) ==
    Apply(Product_add(State, self, other), "+")

Do_sub_int(self, other) ==
    Apply(Product_sub_int(State, self, other), "-int")

Do_sub(self, other) ==
    Apply(Product_sub(State, self, other), "-")

Do_Order ==
    Apply(Order_init(State, today), "Order")

Do_add_product(self, product, qty) ==
    Apply(Order_add_product(State, self, product, qty),
          "add_product")

Do_remove_product(self, product) ==
    Apply(Order_remove_product(State, self, product),
          "remove_product")

Do_update_product_quantity(self, product, new_qty) ==
    Apply(Order_update_product_quantity(State, self, product, new_qty),
          "update_product_quantity")

Do_clear_products(self) ==
    Apply(Order_clear_products(State, self),
          "clear_products")

Do_delete(self) ==
    Apply(Order_delete(State, self), "delete")

Do_total_price(self) ==
    Apply(Order_total_price(State, self), "total_price")

Do_checkout(self) ==
    Apply(Order_checkout(State, self, today), "checkout")

\* date.today() moves on
Tick ==
    /\ today < MaxDay
    /\ today' = today + 1
    /\ UNCHANGED <<prod, products, id_counter, order, orders, order_id, ret>>

\* the Product API
NextProduct ==
    \/ \E name \in Names, category \in Categories, price \in Prices,
          quantity \in Ints : Do_Product(name, category, price, quantity)
    \/ \E self \in Handles, qty \in Ints, u \in BOOLEAN : Do_new(self, qty, u)
    \/ \E self \in Handles, value \in Ints : Do_add_inventory(self, value)
    \/ \E self \in Handles, value \in Ints : Do_remove_inventory(self, value)
    \/ \E p \in Handles : Do_delete_product(p)
    \/ \E self \in Handles, other \in Ints : Do_add_int(self, other)
    \/ \E self \in Handles, other \in Handles : Do_add(self, other)
    \/ \E self \in Handles, other \in Ints : Do_sub_int(self, other)
    \/ \E self \in Handles, other \in Handles : Do_sub(self, other)

\* the Order API over a catalog of constructed products
NextOrder ==
    \/ \E quantity \in 1..MaxQty : Seed(quantity)
    \/ Do_Order
    \/ \E self \in OrderHandles, product \in Handles, qty \in Ints :
          Do_add_product(self, product, qty)
    \/ \E self \in OrderHandles, product \in Handles :
          Do_remove_product(self, product)
    \/ \E self \in OrderHandles, product \in Handles, new_qty \in Ints :
          Do_update_product_quantity(self, product, new_qty)
    \/ \E self \in OrderHandles : Do_clear_products(self)
    \/ \E self \in OrderHandles : Do_delete(self)
    \/ \E self \in OrderHandles : Do_total_price(self)
    \/ \E self \in OrderHandles : Do_checkout(self)
    \/ Tick

\* splitting and exhausting units of constructed products
NextSplit ==
    \/ \E name \in Names, category \in Categories, price \in Prices,
          quantity \in Ints : Do_Product(name, category, price, quantity)
    \/ \E self \in Handles, qty \in Ints, u \in BOOLEAN : Do_new(self, qty, u)
    \/ \E self \in Handles, value \in Ints : Do_remove_inventory(self, value)

\* carts that are only ever added to
NextAddOnly ==
    \/ \E quantity \in 1..MaxQty : Seed(quantity)
    \/ Do_Order
    \/ \E self \in OrderHandles, product \in Handles, qty \in Ints :
          Do_add_product(self, product, qty)

\* carts whose lines are resized while the catalog is restocked
NextResize ==
    \/ \E quantity \in 1..MaxQty : Seed(quantity)
    \/ Do_Order
    \/ \E self \in OrderHandles, product \in Handles, qty \in Ints :
          Do_add_product(self, product, qty)
    \/ \E self \in OrderHandles, product \in Handles, new_qty \in Ints :
          Do_update_product_quantity(self, product, new_qty)
    \/ \E self \in Handles, value \in Ints : Do_add_inventory(self, value)

\* a seeded catalog whose units are split, restocked, drawn down and deleted
NextStock ==
    \/ \E quantity \in 1..MaxQty : Seed(quantity)
    \/ \E self \in Handles, qty \in Ints, u \in BOOLEAN : Do_new(self, qty, u)
    \/ \E self \in Handles, value \in Ints : Do_add_inventory(self, value)
    \/ \E self \in Handles, value \in Ints : Do_remove_inventory(self, value)
    \/ \E p \in Handles : Do_delete_product(p)

Next == NextProduct \/ NextOrder

Spec == Init /\ [][Next]_vars

SpecProduct == Init /\ [][NextProduct]_vars

SpecOrder == Init /\ [][NextOrder]_vars

SpecSplit == Init /\ [][NextSplit]_vars

SpecAddOnly == Init /\ [][NextAddOnly]_vars

SpecResize == Init /\ [][NextResize]_vars

SpecStock == Init /\ [][NextStock]_vars

(***************************************************************************)
(* Vocabulary of the properties.                                           *)
(***************************************************************************)
\* the object itself is an entry of Product.products
IsRegistered(p) == Registered(products, p)

\* the order is in Order.orders and has not been checked out
IsOpen(o) == ~order[o].checkout_status /\ Registered(orders, o)

\* the object carrying an id
ObjOf(pr, id) == CHOOSE i \in 1..Len(pr) : pr[i].product_id = id

\* the directly constructed product a unit descends from
RECURSIVE Root(_, _)
Root(pr, p) ==
    IF pr[p].parent_id = pr[p].product_id THEN p
    ELSE Root(pr, ObjOf(pr, pr[p].parent_id))

\* quantities of the registered units descended from c (c itself included)
RECURSIVE LineageSumFrom(_, _, _, _)
LineageSumFrom(pr, reg, c, i) ==
    IF i > Len(reg) THEN 0
    ELSE (IF Root(pr, reg[i]) = c THEN pr[reg[i]].quantity ELSE 0)
         + LineageSumFrom(pr, reg, c, i + 1)

LineageSum(pr, reg, c) == LineageSumFrom(pr, reg, c, 1)

(***************************************************************************)
(* C1: conservation of stock.  A constructed product starts as the only    *)
(* unit of its lineage, so the sum over its lineage equals the constructed *)
(* quantity for ever exactly when no step of a run made of constructions   *)
(* and add_product calls changes that sum.                                 *)
(***************************************************************************)
C1_Conservation ==
    [][\A c \in 1..Len(prod) :
          prod[c].parent_id = prod[c].product_id
          => LineageSum(prod', products', c) = LineageSum(prod, products, c)]_vars

(***************************************************************************)
(* C2: frozen at checkout.  No step changes the list of a checked-out      *)
(* order, the quantity of a unit in it, or its total price.                *)
(***************************************************************************)
C2_FrozenAtCheckout ==
    [][\A o \in 1..Len(order) :
          order[o].checkout_status
          => /\ order'[o].products = order[o].products
             /\ \A i \in 1..Len(order[o].products) :
                    prod'[order[o].products[i]].quantity
                        = prod[order[o].products[i]].quantity
             /\ SumLines([prod |-> prod'], order'[o].products)
                    = SumLines(State, order[o].products)]_vars

(***************************************************************************)
(* C3: on a checked-out order add_product, remove_product,                 *)
(* update_product_quantity, clear_products and delete each raise the       *)
(* checked-out error and leave both heaps and both registries as they are. *)
(***************************************************************************)
Rejected(r) ==
    /\ r.exc = "ValueError"
    /\ r.msg = "Unable to edit order, you have already checked out!"
    /\ r.s = State

C3_ClosedOrderRejects ==
    \A o \in OrderHandles :
        order[o].checkout_status
        => /\ Rejected(Order_clear_products(State, o))
           /\ Rejected(Order_delete(State, o))
           /\ \A p \in Handles :
                  /\ Rejected(Order_remove_product(State, o, p))
                  /\ \A q \in Ints :
                         /\ Rejected(Order_add_product(State, o, p, q))
                         /\ Rejected(Order_update_product_quantity(State, o, p, q))

\* a mutator has just raised and every order there is is checked out
C3_Witness ==
    /\ ret.op \in {"add_product", "remove_product", "update_product_quantity",
                   "clear_products", "delete"}
    /\ ret.exc = "ValueError"
    /\ OrderHandles # {}
    /\ Handles # {}
    /\ \A o \in OrderHandles : order[o].checkout_status

(***************************************************************************)
(* C4: checkout is one-way and idempotent-safe.  No step takes a checkout  *)
(* flag from true to false, and checkout() on a checked-out order raises   *)
(* and leaves the flag and the checkout date (the whole state) unchanged,  *)
(* whatever the day.                                                       *)
(***************************************************************************)
C4_CheckoutOneWay ==
    [][\A o \in 1..Len(order) :
          order[o].checkout_status
          => /\ order'[o].checkout_status
             /\ \A day \in 1..MaxDay :
                    /\ Order_checkout(State, o, day).exc = "ValueError"
                    /\ Order_checkout(State, o, day).s = State]_vars

\* checkout has just raised, and every checked-out order was checked out on
\* an earlier day: the call was a second checkout, on a later day
C4_Witness ==
    /\ ret.op = "checkout"
    /\ ret.exc = "ValueError"
    /\ \E o \in OrderHandles : order[o].checkout_status
    /\ \A o \in OrderHandles :
           order[o].checkout_status => order[o].checkout_date < today

(***************************************************************************)
(* C5: every product in the registry has a quantity greater than 0.        *)
(***************************************************************************)
C5_PositiveQuantity ==
    \A i \in 1..Len(products) : prod[products[i]].quantity > 0

(***************************************************************************)
(* C6: new(n) on a registered product s of quantity n (n > 0, as the data  *)
(* model requires) returns a unit of quantity n whose parent id is s's id, *)
(* removes s from the registry and keeps every other registered product.   *)
(***************************************************************************)
C6_ExhaustingSplit ==
    \A s \in Handles :
        (IsRegistered(s) /\ prod[s].quantity > 0)
        => LET r == Product_new(State, s, prod[s].quantity, TRUE)
           IN /\ r.val # None
              /\ r.s.prod[r.val].quantity = prod[s].quantity
              /\ r.s.prod[r.val].parent_id = prod[s].product_id
              /\ ~Registered(r.s.products, s)
              /\ \A p \in Handles :
                     (p # s /\ IsRegistered(p)) => Registered(r.s.products, p)

(***************************************************************************)
(* C7: new(qty) with 0 < qty < n on a registered product s of quantity n   *)
(* returns a new registered unit with quantity qty, s's name, category and *)
(* price and parent id s's id, leaves s registered with quantity n - qty,  *)
(* and changes no other product.                                           *)
(***************************************************************************)
C7_PartialSplit ==
    \A s \in Handles :
        IsRegistered(s)
        => \A qty \in 1..(prod[s].quantity - 1) :
               LET r == Product_new(State, s, qty, TRUE)
                   u == Len(prod) + 1
               IN /\ r.exc = NoExc
                  /\ r.val = u
                  /\ Len(r.s.prod) = u
                  /\ r.s.products = Append(products, u)
                  /\ r.s.prod[u].quantity = qty
                  /\ r.s.prod[u].name = prod[s].name
                  /\ r.s.prod[u].category = prod[s].category
                  /\ r.s.prod[u].price = prod[s].price
                  /\ r.s.prod[u].parent_id = prod[s].product_id
                  /\ r.s.prod[u].product_id \notin
                         {prod[p].product_id : p \in Handles}
                  /\ r.s.prod[s] = [prod[s] EXCEPT
                                       !.quantity = prod[s].quantity - qty]
                  /\ \A p \in Handles \ {s} : r.s.prod[p] = prod[p]

\* new(1) has just split one unit off the first product, which had two
C7_Witness ==
    /\ ret.op = "new"
    /\ ret.val = 2
    /\ products = <<1, 2>>
    /\ prod[1].quantity = 1
    /\ prod[2].quantity = 1
    /\ prod[2].parent_id = prod[1].product_id
    /\ prod[2].price = prod[1].price

(***************************************************************************)
(* C8: remove_inventory(delta) on a registered product p of quantity n     *)
(* (n > 0): delta = n removes p and nothing else from the registry and     *)
(* returns no handle; 0 < delta < n leaves p registered with n - delta;    *)
(* delta > n raises and leaves the quantity and the registry unchanged.    *)
(***************************************************************************)
C8_RemoveInventory ==
    \A p \in Handles :
        (IsRegistered(p) /\ prod[p].quantity > 0)
        => \A delta \in 1..(MaxQty + 1) :
               LET n == prod[p].quantity
                   r == remove_inventory(State, p, delta)
               IN /\ delta = n
                     => /\ r.exc = NoExc
                        /\ r.val = None
                        /\ ~Registered(r.s.products, p)
                        /\ \A x \in Handles :
                               (x # p /\ IsRegistered(x))
                               => Registered(r.s.products, x)
                  /\ delta < n
                     => /\ r.exc = NoExc
                        /\ Registered(r.s.products, p)
                        /\ r.s.prod[p].quantity = n - delta
                  /\ delta > n
                     => /\ r.exc = "ValueError"
                        /\ r.s = State

(***************************************************************************)
(* C9: add_product with qty greater than the product's quantity, on an     *)
(* open registered order, raises the insufficient-stock error and leaves   *)
(* the quantities, the product registry and the order's list unchanged.    *)
(***************************************************************************)
C9_InsufficientStock ==
    \A o \in OrderHandles :
        IsOpen(o)
        => \A p \in Handles : \A qty \in Ints :
               qty > prod[p].quantity
               => LET r == Order_add_product(State, o, p, qty)
                  IN /\ r.exc = "ValueError"
                     /\ r.msg = "Only N items available"
                     /\ r.s = State

\* add_product has just raised on an order that is open and registered
C9_Witness ==
    /\ ret.op = "add_product"
    /\ ret.exc = "ValueError"
    /\ OrderHandles # {}
    /\ \A o \in OrderHandles : IsOpen(o)
    /\ \E p \in Handles : IsRegistered(p) /\ prod[p].quantity = MaxQty

(***************************************************************************)
(* C10: add_product(product, qty) with 1 <= qty <= product's quantity, on  *)
(* an open registered order and a registered product, appends one new unit *)
(* (quantity qty, the product's name, category and price, parent id the    *)
(* product's id) to the order's list; the lines already there keep their   *)
(* order and quantities and no other order's list changes.                 *)
(***************************************************************************)
C10_AddProduct ==
    \A o \in OrderHandles :
        IsOpen(o)
        => \A p \in Handles :
               IsRegistered(p)
               => \A qty \in 1..prod[p].quantity :
                      LET r == Order_add_product(State, o, p, qty)
                          u == Len(prod) + 1
                          lines == order[o].products
                      IN /\ r.exc = NoExc
                         /\ r.s.order[o].products = Append(lines, u)
                         /\ r.s.prod[u].quantity = qty
                         /\ r.s.prod[u].name = prod[p].name
                         /\ r.s.prod[u].category = prod[p].category
                         /\ r.s.prod[u].price = prod[p].price
                         /\ r.s.prod[u].parent_id = prod[p].product_id
                         /\ \A i \in 1..Len(lines) :
                                r.s.prod[lines[i]].quantity
                                    = prod[lines[i]].quantity
                         /\ \A x \in OrderHandles \ {o} :
                                r.s.order[x].products = order[x].products

(***************************************************************************)
(* C11: update_product_quantity(p, n) on an open registered order whose    *)
(* list holds the cart unit p, with n greater than p's quantity and at     *)
(* most the quantity of the registered, unreserved sibling of p (same      *)
(* parent id), succeeds: p's quantity becomes n and the sibling's quantity *)
(* goes down by the difference.                                            *)
(***************************************************************************)
\* the registered units of p's parent that no cart has reserved
Siblings(p) ==
    {g \in Handles \ {p} : /\ IsRegistered(g)
                           /\ prod[g].parent_id = prod[p].parent_id
                           /\ ~prod[g]._incart}

C11_IncreaseLine ==
    \A o \in OrderHandles :
        IsOpen(o)
        => \A p \in Handles :
               (Registered(order[o].products, p) /\ prod[p]._incart)
               => \A g \in Siblings(p) : \A n \in Ints :
                      (Siblings(p) = {g} /\ n > prod[p].quantity
                                        /\ n <= prod[g].quantity)
                      => LET r == Order_update_product_quantity(State, o, p, n)
                         IN /\ r.exc = NoExc
                            /\ r.s.prod[p].quantity = n
                            /\ r.s.prod[g].quantity
                                   = prod[g].quantity - (n - prod[p].quantity)

(***************************************************************************)
(* C12: update_product_quantity(p, n) raises an error and leaves every     *)
(* product's quantity, the product registry and the order's list unchanged *)
(* when p is not in the order's list, when n is not positive, when n is    *)
(* p's current quantity, when no unreserved sibling of p is registered,    *)
(* and when n exceeds an unreserved sibling's quantity.                    *)
(***************************************************************************)
C12_UpdateRejects ==
    \A o \in OrderHandles : \A p \in Handles : \A n \in Ints :
        (\/ ~Registered(order[o].products, p)
         \/ n <= 0
         \/ n = prod[p].quantity
         \/ Siblings(p) = {}
         \/ \E g \in Siblings(p) : n > prod[g].quantity)
        => LET r == Order_update_product_quantity(State, o, p, n)
           IN /\ r.exc # NoExc
              /\ r.s = State

\* update_product_quantity has just raised its own error on open orders
\* that hold lines
C12_Witness ==
    /\ ret.op = "update_product_quantity"
    /\ ret.exc = "ValueError"
    /\ OrderHandles # {}
    /\ \A o \in OrderHandles : IsOpen(o) /\ Len(order[o].products) >= 1

(***************************************************************************)
(* C13: for every registered order, open or checked out, total_price is    *)
(* the sum over the lines of the order's list of quantity times price, and *)
(* reading it changes neither the list nor any product's quantity.         *)
(***************************************************************************)
\* quantity times price summed over lines[1..i]
RECURSIVE LineTotal(_, _, _)
LineTotal(pr, lines, i) ==
    IF i = 0 THEN 0
    ELSE LineTotal(pr, lines, i - 1)
         + pr[lines[i]].quantity * pr[lines[i]].price

C13_TotalPrice ==
    \A o \in OrderHandles :
        Registered(orders, o)
        => LET r == Order_total_price(State, o)
               lines == order[o].products
           IN /\ r.exc = NoExc
              /\ r.val = LineTotal(prod, lines, Len(lines))
              /\ r.s = State

\* total_price has just been read on a checked-out order of two lines
C13_Witness ==
    /\ ret.op = "total_price"
    /\ ret.exc = NoExc
    /\ Len(order) = 1
    /\ Registered(orders, 1)
    /\ order[1].checkout_status
    /\ Len(order[1].products) = 2
    /\ ret.val = LineTotal(prod, order[1].products, 2)
    /\ ret.val > 0

(***************************************************************************)
(* C14: once delete() has removed an open order from the order registry,   *)
(* each of add_product, remove_product, update_product_quantity,           *)
(* clear_products, delete, total_price and checkout called on that order   *)
(* raises the order-does-not-exist error.                                  *)
(***************************************************************************)
NoSuchOrder(r) ==
    r.exc = "ValueError" /\ r.msg = "Order does not exist"

C14_DeletedOrderRejects ==
    \A o \in OrderHandles :
        (~Registered(orders, o) /\ ~order[o].checkout_status)
        => /\ \A p \in Handles : \A n \in Ints :
                  /\ NoSuchOrder(Order_add_product(State, o, p, n))
                  /\ NoSuchOrder(Order_remove_product(State, o, p))
                  /\ NoSuchOrder(Order_update_product_quantity(State, o, p, n))
           /\ NoSuchOrder(Order_clear_products(State, o))
           /\ NoSuchOrder(Order_delete(State, o))
           /\ NoSuchOrder(Order_total_price(State, o))
           /\ \A day \in 1..MaxDay : NoSuchOrder(Order_checkout(State, o, day))

(***************************************************************************)
(* C15: every successful construction of a Product, with the arguments of  *)
(* a direct call or with those new passes on from its source, appends the  *)
(* new object to the product registry and adds no other entry; its id is   *)
(* greater than every id issued before (ids spent by failed constructions  *)
(* and ids of deleted products included), no id ever changes, and a        *)
(* directly constructed product has its own id as parent id.               *)
(***************************************************************************)
\* the argument tuples a constructor call can receive
ConstructorArgs ==
    (Names \X Categories \X Prices \X Ints)
    \cup {<<prod[p].name, prod[p].category, prod[p].price, qty>> :
             p \in Handles, qty \in Ints}

C15_FreshIds ==
    /\ [](\A a \in ConstructorArgs :
             LET r == Product_init(State, a[1], a[2], a[3], a[4])
             IN r.exc = NoExc
                => /\ r.val = Len(prod) + 1
                   /\ r.s.products = Append(products, r.val)
                   /\ r.s.prod[r.val].product_id > id_counter
                   /\ r.s.prod[r.val].parent_id = r.s.prod[r.val].product_id
                   /\ \A h \in Handles :
                          r.s.prod[h].product_id = prod[h].product_id)
    /\ [][/\ id_counter' >= id_counter
          /\ Len(prod') \in {Len(prod), Len(prod) + 1}
          /\ \A p \in Handles :
                 /\ prod'[p].product_id = prod[p].product_id
                 /\ prod[p].product_id <= id_counter
          /\ \A p \in (Len(prod) + 1)..Len(prod') :
                 /\ prod'[p].product_id > id_counter
                 /\ prod'[p].product_id <= id_counter'
         ]_vars

\* a product has just been constructed after an id was spent by a failed
\* construction and after a product left the registry
C15_Witness ==
    /\ ret.op = "Product"
    /\ ret.exc = NoExc
    /\ prod[ret.val].product_id = id_counter
    /\ id_counter > IdBase + Len(prod) - 1
    /\ Len(products) < Len(prod)

(***************************************************************************)
(* C16: Product(name, category, price, quantity) with an empty name, an    *)
(* empty category, a price that is not greater than 0 or a quantity that   *)
(* is not positive raises a validation error and leaves the product        *)
(* registry as it was.                                                     *)
(***************************************************************************)
C16_ConstructorRejects ==
    \A name \in Names : \A category \in Categories :
        \A price \in Prices \cup {0 - 30} : \A quantity \in Ints :
            (name = "" \/ category = "" \/ price <= 0 \/ quantity <= 0)
            => LET r == Product_init(State, name, category, price, quantity)
               IN /\ r.exc = "ValueError"
                  /\ r.s.products = products

(***************************************************************************)
(* C17: checkout() on an order that is not checked out and whose list is   *)
(* empty returns without changing any state; in every reachable state an   *)
(* order has a checkout date exactly when its checkout flag is set, and    *)
(* every checked-out order has at least one line.                          *)
(***************************************************************************)
C17_EmptyCheckout ==
    \A o \in OrderHandles :
        /\ (order[o].checkout_date # None) <=> order[o].checkout_status
        /\ order[o].checkout_status => Len(order[o].products) >= 1
        /\ (~order[o].checkout_status /\ Len(order[o].products) = 0)
           => \A day \in 1..MaxDay :
                  LET r == Order_checkout(State, o, day)
                  IN r.exc = NoExc /\ r.s = State

\* checkout has just returned and no order is checked out: the call was
\* made on an open order, whose list is empty
C17_Witness ==
    /\ ret.op = "checkout"
    /\ ret.exc = NoExc
    /\ OrderHandles # {}
    /\ \A o \in OrderHandles : IsOpen(o) /\ Len(order[o].products) = 0

(***************************************************************************)
(* C18: a call of checkout() that ends by raising an error leaves the      *)
(* order's checkout flag and checkout date as they were, whether the order *)
(* is open, checked out or deleted.                                        *)
(***************************************************************************)
C18_CheckoutAtomic ==
    \A o \in OrderHandles : \A day \in 1..MaxDay :
        LET r == Order_checkout(State, o, day)
        IN r.exc # NoExc
           => /\ r.s.order[o].checkout_status = order[o].checkout_status
              /\ r.s.order[o].checkout_date = order[o].checkout_date

(***************************************************************************)
(* C19: for every product s and every qty with qty <= 0 or qty greater     *)
(* than s's quantity, new(qty) returns no result and leaves the members of *)
(* the product registry and every quantity unchanged; add_product(s, qty)  *)
(* with such a qty leaves the order's list, the product registry and every *)
(* quantity unchanged.                                                     *)
(***************************************************************************)
\* the registry has the same members and every product the same quantity
SameStock(s) ==
    /\ s.products = products
    /\ \A h \in Handles : s.prod[h].quantity = prod[h].quantity

C19_FailedSplit ==
    \A p \in Handles : \A qty \in Ints :
        (qty <= 0 \/ qty > prod[p].quantity)
        => /\ LET r == Product_new(State, p, qty, TRUE)
              IN r.val = None /\ SameStock(r.s)
           /\ \A o \in OrderHandles :
                  LET r == Order_add_product(State, o, p, qty)
                  IN r.s.order = order /\ SameStock(r.s)

(***************************************************************************)
(* C20: add_inventory(delta) on a registered product of quantity n sets    *)
(* the quantity to n + delta when delta is positive, and raises an error   *)
(* leaving the quantity n when delta is zero or negative.                  *)
(***************************************************************************)
C20_AddInventory ==
    \A p \in Handles :
        IsRegistered(p)
        => \A delta \in Ints :
               LET r == add_inventory(State, p, delta)
               IN IF delta > 0
                  THEN /\ r.exc = NoExc
                       /\ r.s.prod[p].quantity = prod[p].quantity + delta
                  ELSE /\ r.exc # NoExc
                       /\ r.s.prod[p].quantity = prod[p].quantity

(***************************************************************************)
(* C21: delete_product(p) on an entry p of the product registry removes    *)
(* that entry and keeps every other entry, units with p's parent id        *)
(* included, in place and in order; when p is not an entry it raises an    *)
(* error and the registry is unchanged.                                    *)
(***************************************************************************)
\* reg without the entries that are the object p
RECURSIVE Without(_, _)
Without(reg, p) ==
    IF reg = <<>> THEN <<>>
    ELSE IF Head(reg) = p THEN Without(Tail(reg), p)
    ELSE <<Head(reg)>> \o Without(Tail(reg), p)

C21_DeleteByIdentity ==
    \A p \in Handles :
        LET r == delete_product(State, p)
        IN IF IsRegistered(p)
           THEN r.exc = NoExc /\ r.s.products = Without(products, p)
           ELSE r.exc # NoExc /\ r.s.products = products

(***************************************************************************)
(* C22: add_inventory and remove_inventory called on a product that is not *)
(* an entry of the product registry raise an error and change no product's *)
(* quantity and no registry entry, whatever other units are registered.    *)
(***************************************************************************)
C22_StaleHandle ==
    \A p \in Handles :
        ~IsRegistered(p)
        => \A value \in Ints :
               /\ LET r == add_inventory(State, p, value)
                  IN r.exc # NoExc /\ SameStock(r.s)
               /\ LET r == remove_inventory(State, p, value)
                  IN r.exc # NoExc /\ SameStock(r.s)

(***************************************************************************)
(* C23: remove_product(p) on an open registered order raises an error and  *)
(* leaves the list unchanged when p is not a unit of the order's list;     *)
(* otherwise p leaves the list, every other unit of the list stays in its  *)
(* original order (other lines of the same catalog product included), and  *)
(* p is the one unit whose reservation flag is cleared.                    *)
(***************************************************************************)
C23_RemoveProduct ==
    \A o \in OrderHandles :
        IsOpen(o)
        => \A p \in Handles :
               LET r == Order_remove_product(State, o, p)
                   lines == order[o].products
               IN IF Registered(lines, p)
                  THEN /\ r.exc = NoExc
                       /\ r.s.order[o].products = Without(lines, p)
                       /\ ~r.s.prod[p]._incart
                       /\ \A h \in Handles \ {p} :
                              r.s.prod[h]._incart = prod[h]._incart
                  ELSE /\ r.exc # NoExc
                       /\ r.s.order[o].products = lines

(***************************************************************************)
(* C24: clear_products() on an open registered order empties its list;     *)
(* clear_products and a remove_product that succeeds leave the members of  *)
(* the product registry and every product's quantity unchanged (nothing    *)
(* goes back to the catalog unit) and leave every other order unchanged.   *)
(***************************************************************************)
\* the order registry and every order but o are as they were
OtherOrdersSame(s, o) ==
    /\ s.orders = orders
    /\ \A x \in OrderHandles \ {o} : s.order[x] = order[x]

C24_ClearProducts ==
    \A o \in OrderHandles :
        IsOpen(o)
        => /\ LET r == Order_clear_products(State, o)
              IN /\ r.exc = NoExc
                 /\ r.s.order[o].products = <<>>
                 /\ SameStock(r.s)
                 /\ OtherOrdersSame(r.s, o)
           /\ \A p \in Handles :
                  LET r == Order_remove_product(State, o, p)
                  IN r.exc = NoExc
                     => SameStock(r.s) /\ OtherOrdersSame(r.s, o)

\* clear_products has just returned: an open order is empty, a unit that
\* was reserved is in no list and still registered with its quantity, and
\* the other order still holds a line
C24_Witness ==
    /\ ret.op = "clear_products"
    /\ ret.exc = NoExc
    /\ \E o \in OrderHandles : IsOpen(o) /\ order[o].products = <<>>
    /\ \E o \in OrderHandles : Len(order[o].products) >= 1
    /\ \E p \in Handles :
           /\ IsRegistered(p)
           /\ prod[p]._incart
           /\ prod[p].quantity >= 1
           /\ \A o \in OrderHandles : ~Registered(order[o].products, p)

(***************************************************************************)
(* C25: in every reachable state reading in_cart on a registered product   *)
(* yields a boolean, true for every unit in some order's list and false    *)
(* for every product built directly by the constructor, and the sibling    *)
(* lookup of update_product_quantity stops only at units with the parent   *)
(* id whose in_cart reads false.                                           *)
(***************************************************************************)
C25_ReservationFlag ==
    \A p \in Handles :
        IsRegistered(p)
        => LET r == in_cart(prod[p])
           IN /\ r.exc = NoExc
              /\ r.val \in BOOLEAN
              /\ (\E o \in OrderHandles : Registered(order[o].products, p))
                 => r.val
              /\ prod[p].parent_id = prod[p].product_id => ~r.val
              /\ \A i \in LookupStops(State, p) :
                     LET g == in_cart(prod[products[i]])
                     IN g.exc = NoExc /\ ~g.val

====
